---- MODULE Spec2Model ----
(***************************************************************************)
(* term-quizz: the screen composition engine (PlayerScreen), the viewer    *)
(* session (PlayerSession) and the broadcast loop (QuizzServer) of         *)
(* quizz.go, as a state machine.                                           *)
(*                                                                         *)
(*   SpecScreen : the pure screen operations (NewPlayerScreen, DrawRect,   *)
(*                SetText, Compute, Render) applied once to a buffer drawn *)
(*                from a bounded set of geometries and prior contents.     *)
(*   Spec       : the server: AddSession, HandleUserConnection, SetQuizz,  *)
(*                UpdateWindowSize and the ticker goroutine of Run,        *)
(*                interleaved, with one quizz.                             *)
(*   TickSpec   : the server with connections, the ticker and SetQuizz     *)
(*                over two quizzes; no AddSession and no resize.           *)
(*   FairSpec   : TickSpec with weak fairness of the ticker goroutine.     *)
(*   MainSpec   : the server as main.go wires it.                          *)
(***************************************************************************)
EXTENDS Integers, Sequences, FiniteSets

VARIABLES
    \* ---- QuizzServer (quizz.go:188-192) and its goroutines
    Sessions,      \* q.Sessions: username -> *PlayerSession (NoEntry: no entry)
    heap,          \* the PlayerSession objects pointers refer to
    waiting,       \* per object, the calls of UpdateWindows waiting in s.mux.Lock()
    currentQuizz,  \* q.currentQuizz (NoQuizz: nil)
    qmux,          \* q.mux: "free"; "connect", "add": HandleUserConnection, AddSession holds it
    tpc,           \* position of the ticker goroutine started by Run
    tTodo,         \* keys the range loop of QuizzServer.Update has yet to produce
    tSession,      \* `session` of the range loop (NilSession outside an iteration)
    tQuizz,        \* the quizz last passed to session.Update in this tick
    tScreen,       \* the buffer s.screen.Compute acted on, as Compute left it, until Render
    tFrame,        \* `buffer` of PlayerSession.Update
    wire,          \* the write to a sink performed by the last step (NoWrite: none)
    panicked,      \* a goroutine panicked: the process is gone
    \* ---- the request handlers of main.go
    pending,       \* the calls `go server.HandleUserConnection(...)` has started
    replying,      \* per connection, the pty-req its handler has started a session
                   \* for and not yet answered (NoReply: none)
    reply,         \* the last request handled and its req.Reply (NoReply: none)
    \* ---- one application of a screen operation (SpecScreen)
    scr,           \* the PlayerScreen
    pre,           \* the PlayerScreen before the call
    call           \* the call applied to pre, giving scr, and what it returned

registryVars == <<Sessions, heap, waiting>>
tickerVars == <<tpc, tTodo, tSession, tQuizz, tScreen, tFrame>>
serverVars == <<registryVars, currentQuizz, qmux, tickerVars, wire>>
mainVars == <<pending, replying, reply>>
screenVars == <<scr, pre, call>>
vars == <<serverVars, panicked, mainVars, screenVars>>

(***************************************************************************)
(* Bounds of the model.                                                    *)
(***************************************************************************)
MaxRows == 3
MaxCols == 3
MaxLen == 4
MaxResizes == 1

(***************************************************************************)
(* Program constants.                                                      *)
(***************************************************************************)
QuestionsRight == 55
PlayersLeft == 56
TitleRow == 2
TitleCol == 2

\* A Go string that ends up in a frame: the text and the colour attributes
\* color.Sprintf wraps it in ("" where none).
Styled(glyph, fg, bg) == [glyph |-> glyph, fg |-> fg, bg |-> bg]
Plain(str) == Styled(str, "", "")

\* the escape sequences and the box-drawing runes of quizz.go:15-24, spelled
\* in ASCII
clearScreen == Plain("ESC[H ESC[2J")
hideCursor == Plain("ESC[?25l")
verticalWall == "||"
horizontalWall == "="
topLeft == "TL"
topRight == "TR"
bottomRight == "BR"
bottomLeft == "BL"
empty == Plain(" ")
crlf == Plain("\r\n")

Alphabet == <<"A", "B", "C", "D", "E", "F", "G", "H", "I", "J", "K", "L", "M",
              "N", "O", "P", "Q", "R", "S", "T", "U", "V", "W", "X", "Y", "Z">>

\* The text of n bytes A, B, C, ...
Text(n) == [k \in 1..n |-> Alphabet[((k - 1) % 26) + 1]]

(***************************************************************************)
(* PlayerScreen                                                            *)
(***************************************************************************)
NewPlayerScreen(rows, columns) ==
    [Columns |-> columns, Rows |-> rows,
     Tiles |-> [i \in 0..(rows - 1) |-> [j \in 0..(columns - 1) |-> empty]]]

\* rows of the buffer from row i on, each followed by "\r\n"
RECURSIVE RenderFrom(_, _)
RenderFrom(s, i) ==
    IF i >= s.Rows THEN <<>>
    ELSE [j \in 1..s.Columns |-> s.Tiles[i][j - 1]] \o <<crlf>> \o RenderFrom(s, i + 1)

\* Render with "\r\n" between the rows only, none after the last
RenderJoined(s) ==
    IF s.Rows = 0 THEN <<>>
    ELSE SubSeq(RenderFrom(s, 0), 1, Len(RenderFrom(s, 0)) - 1)

Render(s) == RenderFrom(s, 0)

\* DrawRect past its four range checks: the two loops, then the corners
Paint(s, topLeftX, topLeftY, bottomRightX, bottomRightY, fg) ==
    LET horizontal ==
            [i \in 0..(s.Rows - 1) |-> [j \in 0..(s.Columns - 1) |->
                IF j >= topLeftX /\ j < bottomRightX /\ i \in {topLeftY, bottomRightY}
                THEN Styled(horizontalWall, fg, "") ELSE s.Tiles[i][j]]]
        vertical ==
            [i \in 0..(s.Rows - 1) |-> [j \in 0..(s.Columns - 1) |->
                IF i >= topLeftY /\ i < bottomRightY /\ j \in {topLeftX, bottomRightX}
                THEN Styled(verticalWall, fg, "") ELSE horizontal[i][j]]]
        c1 == [vertical EXCEPT ![topLeftY][topLeftX] = Styled(topLeft, fg, "")]
        c2 == [c1 EXCEPT ![topLeftY][bottomRightX] = Styled(topRight, fg, "")]
        c3 == [c2 EXCEPT ![bottomRightY][bottomRightX] = Styled(bottomRight, fg, "")]
        c4 == [c3 EXCEPT ![bottomRightY][topLeftX] = Styled(bottomLeft, fg, "")]
    IN [s EXCEPT !.Tiles = c4]

\* DrawRect without its check of bottomRightY: the top of a rectangle whose
\* bottom is off the buffer gets drawn
DrawRectUncheckedBottom(s, topLeftX, topLeftY, bottomRightX, bottomRightY, fg) ==
    IF \/ topLeftX > s.Columns - 1 \/ topLeftX < 0
       \/ bottomRightX > s.Columns - 1 \/ bottomRightX < 0
       \/ topLeftY > s.Rows - 1 \/ topLeftY < 0
    THEN s
    ELSE IF bottomRightY > s.Rows - 1 \/ bottomRightY < 0
         THEN [s EXCEPT !.Tiles[topLeftY][topLeftX] = Styled(topLeft, fg, "")]
         ELSE Paint(s, topLeftX, topLeftY, bottomRightX, bottomRightY, fg)

DrawRect(s, topLeftX, topLeftY, bottomRightX, bottomRightY, fg) ==
    IF \/ topLeftX > s.Columns - 1 \/ topLeftX < 0
       \/ bottomRightX > s.Columns - 1 \/ bottomRightX < 0
       \/ topLeftY > s.Rows - 1 \/ topLeftY < 0
       \/ bottomRightY > s.Rows - 1 \/ bottomRightY < 0
    THEN s
    ELSE Paint(s, topLeftX, topLeftY, bottomRightX, bottomRightY, fg)

\* SetText's `text` when it reaches the loop (quizz.go:134-136); only where
\* the slice expression is valid
SetTextCut(s, text, i) ==
    IF i + Len(text) > s.Columns - 1
    THEN SubSeq(text, 1, Len(text) - s.Columns)
    ELSE text

\* SetText panics: an invalid slice bound at quizz.go:135 or an index out of
\* range at quizz.go:141
SetTextPanics(s, text, i, j) ==
    /\ ~(i > s.Rows - 1)
    /\ \/ i + Len(text) > s.Columns - 1 /\ Len(text) - s.Columns < 0
       \/ LET cut == SetTextCut(s, text, i)
          IN \E iter \in 0..(Len(cut) - 1) :
                 i < 0 \/ j + iter < 0 \/ j + iter > s.Columns - 1

\* the buffer after SetText, where it does not panic
SetText(s, text, i, j, fg, bg) ==
    IF i > s.Rows - 1 THEN s
    ELSE
      LET cut == SetTextCut(s, text, i)
      IN [s EXCEPT !.Tiles =
            [r \in 0..(s.Rows - 1) |-> [c \in 0..(s.Columns - 1) |->
                IF r = i /\ c >= j /\ c < j + Len(cut)
                THEN Styled(cut[c - j + 1], fg, bg) ELSE s.Tiles[r][c]]]]

\* the one element of a singleton
Only(S) == CHOOSE x \in S : TRUE

\* Compute panics: its SetText does, on the buffer the first DrawRect left
ComputePanics(s, quizz) ==
    \E questions \in {DrawRect(s, 0, 0, QuestionsRight, s.Rows - 1, "FgCyan")} :
        SetTextPanics(questions, quizz.Title, TitleRow, TitleCol)

\* the buffer after Compute, where it does not panic: the three calls in
\* order, each on the buffer the one before it left
Compute(s, quizz) ==
    Only({DrawRect(title, PlayersLeft, 0, s.Columns - 1, s.Rows - 1, "FgHiYellow") :
            title \in {SetText(questions, quizz.Title, TitleRow, TitleCol,
                               "FgHiRed", "BgBlack") :
                questions \in {DrawRect(s, 0, 0, QuestionsRight, s.Rows - 1, "FgCyan")}}})

(***************************************************************************)
(* PlayerSession and QuizzServer                                           *)
(***************************************************************************)
\* the usernames, in the order the model numbers their sessions in
KeyOrder == <<"a", "b">>
Names == {KeyOrder[k] : k \in 1..Len(KeyOrder)}

\* what one Write on a session's ssh.Channel does: succeed, return an error,
\* or never return
Outcomes == {"ok", "fail", "block"}

\* <<rows, columns>> of the terminals that connect and resize
Geometries == {<<3, 4>>, <<4, 6>>}

Quizz(title) == [Title |-> title, Difficulty |-> 100]
\* the nil *Quizz
NoQuizz == [Title |-> <<>>, Difficulty |-> -1]
\* the quizzes SetQuizz gets in Spec
Quizzes == {Quizz(Text(1))}
\* the quizzes SetQuizz gets in TickSpec: a longer title too
TickQuizzes == {Quizz(Text(1)), Quizz(Text(3))}

NoWrite == [name |-> "", frame |-> <<>>, err |-> FALSE]
NoReply == [type |-> "", rows |-> 0, columns |-> 0, ok |-> FALSE]
NoCall == [op |-> "none", text |-> <<>>, args |-> <<>>, out |-> <<>>]

\* the session's channel is the one of the connection that `name` names
NewPlayerSession(name, rows, columns) ==
    [name |-> name, mux |-> FALSE, screen |-> NewPlayerScreen(rows, columns)]

\* a cell of the heap that holds no PlayerSession
NoSession == [name |-> "", mux |-> FALSE, screen |-> NewPlayerScreen(0, 0)]

\* a *PlayerSession is the index of its object in the heap; at most one
\* object per key, one held by the ticker and one per resize in flight are
\* reachable at a time
MaxObjs == Cardinality(Names) + 1 + MaxResizes
Ids == 1..MaxObjs
\* the nil *PlayerSession
NilSession == 0
\* q.Sessions[username] of a key the map does not have
NoEntry == -1

\* the PlayerSession a pointer refers to
At(ref) == heap[ref]

\* the objects some goroutine or map entry of the state (S, t, w, h) refers to
Live(S, t, w, h) ==
    {S[u] : u \in Names} \cup {t} \cup {id \in Ids : w[id] > 0 \/ h[id].mux}

\* the heap h with the objects nothing refers to any more given back
Collect(h, S, t, w) ==
    [id \in Ids |-> IF id \in Live(S, t, w, h) THEN h[id] ELSE NoSession]

\* where the next object goes
NewId(h) ==
    CHOOSE id \in Ids : h[id] = NoSession /\ \A j \in 1..(id - 1) : h[j] # NoSession

\* The index of an object has no meaning in the program: every state keeps
\* its objects in one order, the sessions of the keys in KeyOrder first, then
\* those only calls of UpdateWindows hold, the one only the ticker holds last.
AppendNew(seq, ref) ==
    IF ref \in Ids /\ ref \notin {seq[k] : k \in 1..Len(seq)} THEN Append(seq, ref) ELSE seq

RECURSIVE KeysFrom(_, _, _)
KeysFrom(S, k, seq) ==
    IF k > Len(KeyOrder) THEN seq
    ELSE KeysFrom(S, k + 1, AppendNew(seq, S[KeyOrder[k]]))

RECURSIVE HeldFrom(_, _, _, _)
HeldFrom(w, h, id, seq) ==
    IF id > MaxObjs THEN seq
    ELSE HeldFrom(w, h, id + 1, IF w[id] > 0 \/ h[id].mux THEN AppendNew(seq, id) ELSE seq)

\* the objects of the state (S, t, w, h) something refers to, in that order
Order(S, t, w, h) == AppendNew(HeldFrom(w, h, 1, KeysFrom(S, 1, <<>>)), t)

\* the pointer ref once the objects are in the order `order`
Pos(order, ref) ==
    IF ref \in Ids THEN CHOOSE k \in 1..Len(order) : order[k] = ref ELSE ref

\* the state (S, t, w, h) with its objects in order
Placed(S, t, w, h) ==
    \E order \in {Order(S, t, w, h)} :
       /\ Sessions' = [u \in Names |-> Pos(order, S[u])]
       /\ tSession' = Pos(order, t)
       /\ waiting' = [k \in Ids |-> IF k <= Len(order) THEN w[order[k]] ELSE 0]
       /\ heap' = [k \in Ids |-> IF k <= Len(order) THEN h[order[k]] ELSE NoSession]

RECURSIVE WaitingUpTo(_)
WaitingUpTo(n) == IF n = 0 THEN 0 ELSE waiting[n] + WaitingUpTo(n - 1)

\* the calls of UpdateWindows that have not returned
InFlight == WaitingUpTo(MaxObjs) + Cardinality({id \in Ids : heap[id].mux})

\* NewQuizzServer, before Run
ServerInit ==
    /\ Sessions = [u \in Names |-> NoEntry]
    /\ heap = [id \in Ids |-> NoSession]
    /\ waiting = [id \in Ids |-> 0]
    /\ currentQuizz = NoQuizz
    /\ qmux = "free"
    /\ tpc = "idle"
    /\ tTodo = {}
    /\ tSession = NilSession
    /\ tQuizz = NoQuizz
    /\ tScreen = NewPlayerScreen(0, 0)
    /\ tFrame = <<>>
    /\ wire = NoWrite
    /\ pending = {}
    /\ replying = [u \in Names |-> NoReply]
    /\ reply = NoReply

Init ==
    /\ ServerInit
    /\ panicked = FALSE
    /\ scr = NewPlayerScreen(0, 0)
    /\ pre = NewPlayerScreen(0, 0)
    /\ call = NoCall

\* the range loop of QuizzServer.Update has begun and not ended
Ranging == tpc \in {"range", "compute", "render", "write", "blocked"}

\* a goroutine holds q.mux to write q.Sessions
Inserting == qmux \in {"connect", "add"}

SetQuizz(quizz) ==
    /\ ~panicked
    /\ qmux = "free"
    /\ currentQuizz' = quizz
    /\ wire' = NoWrite
    /\ UNCHANGED <<registryVars, qmux, tickerVars, panicked, mainVars, screenVars>>

Run ==
    /\ ~panicked
    /\ tpc = "idle"
    /\ IF currentQuizz = NoQuizz
       THEN panicked' = TRUE /\ tpc' = tpc
       ELSE panicked' = FALSE /\ tpc' = "wait"
    /\ wire' = NoWrite
    /\ UNCHANGED <<registryVars, currentQuizz, qmux, tTodo, tSession, tQuizz,
                   tScreen, tFrame, mainVars, screenVars>>

\* q.Sessions[username] = session and the deferred Unlock, h being the heap
\* with the session in it. A key created while the ticker ranges over the map
\* may be produced or skipped; the session the entry held before lives on
\* while a goroutine holds it.
Insert(username, session, h) ==
    /\ \E S \in {[Sessions EXCEPT ![username] = session]}, hh \in {h} :
           Placed(S, tSession, waiting, hh)
    /\ IF Ranging /\ Sessions[username] = NoEntry
       THEN tTodo' \in {tTodo, tTodo \cup {username}}
       ELSE tTodo' = tTodo
    /\ qmux' = "free"
    /\ wire' = NoWrite
    /\ UNCHANGED <<currentQuizz, tpc, tQuizz, tScreen, tFrame, panicked, mainVars,
                   screenVars>>

\* the heap with the session of `name` allocated for the key username
WithNew(username, name, rows, columns) ==
    LET h == Collect(heap, [Sessions EXCEPT ![username] = NoEntry], tSession, waiting)
    IN [h EXCEPT ![NewId(h)] = NewPlayerSession(name, rows, columns)]

\* the pointer to the session WithNew allocates
NewRef(username) ==
    NewId(Collect(heap, [Sessions EXCEPT ![username] = NoEntry], tSession, waiting))

\* AddSession up to q.mux.Lock()
AddSessionLock ==
    /\ ~panicked
    /\ qmux = "free"
    /\ qmux' = "add"
    /\ wire' = NoWrite
    /\ UNCHANGED <<registryVars, currentQuizz, tickerVars, panicked, mainVars,
                   screenVars>>

\* AddSession(username, session) from the assignment on, for a session that
\* is nil or that an entry of q.Sessions holds, under this key or another
AddSession(username, session) ==
    /\ ~panicked
    /\ qmux = "add"
    /\ IF session = NilSession THEN TRUE ELSE \E v \in Names : Sessions[v] = session
    /\ Insert(username, session, heap)

\* HandleUserConnection up to q.mux.Lock()
HandleUserConnectionLock ==
    /\ ~panicked
    /\ qmux = "free"
    /\ qmux' = "connect"
    /\ wire' = NoWrite
    /\ UNCHANGED <<registryVars, currentQuizz, tickerVars, panicked, mainVars,
                   screenVars>>

\* HandleUserConnection from NewPlayerSession to the deferred Unlock
HandleUserConnection(username, rows, columns) ==
    /\ ~panicked
    /\ qmux = "connect"
    /\ Insert(username, NewRef(username), WithNew(username, username, rows, columns))

\* UpdateWindowSize for a username with no entry. The map is read without
\* q.mux: a read during an insert may end the process ("concurrent map read
\* and map write").
UpdateWindowSizeAbsent(username) ==
    /\ ~panicked
    /\ Sessions[username] = NoEntry
    /\ panicked' \in (IF Inserting THEN {FALSE, TRUE} ELSE {FALSE})
    /\ wire' = NoWrite
    /\ UNCHANGED <<registryVars, currentQuizz, qmux, tickerVars, mainVars,
                   screenVars>>

\* UpdateWindowSize for a username with an entry, up to s.mux.Lock() in
\* UpdateWindows, where the call waits; rows and columns are not used before
\* UpdateWindows has the lock. The read of the map may end the process during
\* an insert, and s.mux.Lock() does on a nil session.
UpdateWindowSize(username) ==
    /\ ~panicked
    /\ Sessions[username] # NoEntry
    /\ \/ /\ Sessions[username] # NilSession
          /\ InFlight < MaxResizes
          /\ waiting' = [waiting EXCEPT ![Sessions[username]] = @ + 1]
          /\ panicked' = FALSE
       \/ /\ Sessions[username] = NilSession
          /\ panicked' = TRUE
          /\ waiting' = waiting
       \/ /\ Inserting
          /\ panicked' = TRUE
          /\ waiting' = waiting
    /\ wire' = NoWrite
    /\ UNCHANGED <<Sessions, heap, currentQuizz, qmux, tickerVars, mainVars,
                   screenVars>>

\* UpdateWindows: s.mux.Lock() returns and s.screen is replaced
UpdateWindows(ref, rows, columns) ==
    /\ ~panicked
    /\ waiting[ref] > 0
    /\ ~heap[ref].mux
    /\ waiting' = [waiting EXCEPT ![ref] = @ - 1]
    /\ heap' = [heap EXCEPT ![ref].mux = TRUE,
                            ![ref].screen = NewPlayerScreen(rows, columns)]
    /\ wire' = NoWrite
    /\ UNCHANGED <<Sessions, currentQuizz, qmux, tickerVars, panicked, mainVars,
                   screenVars>>

\* UpdateWindows from s.screen.Render(), whose result is dropped, to the
\* deferred Unlock
UpdateWindowsReturn(ref) ==
    /\ ~panicked
    /\ heap[ref].mux
    /\ \E h \in {[heap EXCEPT ![ref].mux = FALSE]} :
           Placed(Sessions, tSession, waiting, h)
    /\ wire' = NoWrite
    /\ UNCHANGED <<currentQuizz, qmux, tpc, tTodo, tQuizz, tScreen, tFrame, panicked,
                   mainVars, screenVars>>

\* a tick arrives on c and QuizzServer.Update starts to range over q.Sessions
Tick ==
    /\ ~panicked
    /\ tpc = "wait"
    /\ tpc' = "range"
    /\ tTodo' = {u \in Names : Sessions[u] # NoEntry}
    /\ tQuizz' = NoQuizz
    /\ wire' = NoWrite
    /\ UNCHANGED <<registryVars, currentQuizz, qmux, tSession, tScreen, tFrame,
                   panicked, mainVars, screenVars>>

\* the next iteration of `for _, session := range q.Sessions`, up to the call
\* session.Update(q.currentQuizz); the loop ends when no key is left. The map
\* is read without q.mux: an iteration during an insert may end the process
\* ("concurrent map iteration and map write").
RangeNext ==
    /\ ~panicked
    /\ tpc = "range"
    /\ \/ /\ tTodo = {}
          /\ tpc' = "wait"
          /\ panicked' = FALSE
          /\ UNCHANGED <<tTodo, tSession, tQuizz>>
       \/ /\ \E u \in tTodo :
                /\ tTodo' = tTodo \ {u}
                /\ tSession' = Sessions[u]
          /\ tQuizz' = currentQuizz
          /\ tpc' = "compute"
          /\ panicked' = FALSE
       \/ /\ Inserting
          /\ panicked' = TRUE
          /\ UNCHANGED <<tpc, tTodo, tSession, tQuizz>>
    /\ wire' = NoWrite
    /\ UNCHANGED <<registryVars, currentQuizz, qmux, tScreen, tFrame, mainVars,
                   screenVars>>

\* WithScreen for sessions that share one buffer: every session gets the
\* screen
WithScreenShared(screen) ==
    heap' = [id \in Ids |-> IF heap[id] = NoSession THEN NoSession
                            ELSE [heap[id] EXCEPT !.screen = screen]]

\* the ticker's session with its screen replaced
WithScreen(screen) ==
    heap' = [heap EXCEPT ![tSession].screen = screen]

\* PlayerSession.Update: s.screen.Compute(quizz); s.screen of a nil session
\* panics
UpdateCompute ==
    /\ ~panicked
    /\ tpc = "compute"
    /\ IF tSession = NilSession
       THEN /\ panicked' = TRUE
            /\ UNCHANGED <<heap, tpc, tScreen>>
       ELSE IF ComputePanics(At(tSession).screen, tQuizz)
       THEN /\ panicked' = TRUE
            /\ UNCHANGED <<heap, tpc, tScreen>>
       ELSE /\ panicked' = FALSE
            /\ tScreen' = Compute(At(tSession).screen, tQuizz)
            /\ WithScreen(tScreen')
            /\ tpc' = "render"
    /\ wire' = NoWrite
    /\ UNCHANGED <<Sessions, waiting, currentQuizz, qmux, tTodo, tSession, tQuizz,
                   tFrame, mainVars, screenVars>>

\* UpdateRender with hideCursor written before the frame instead of after it
UpdateRenderHideFirst ==
    /\ ~panicked
    /\ tpc = "render"
    /\ tFrame' = <<clearScreen, hideCursor>> \o Render(At(tSession).screen)
    /\ tScreen' = NewPlayerScreen(0, 0)
    /\ tpc' = "write"
    /\ wire' = NoWrite
    /\ UNCHANGED <<registryVars, currentQuizz, qmux, tTodo, tSession, tQuizz,
                   panicked, mainVars, screenVars>>

\* PlayerSession.Update: the three WriteString calls; s.screen is read again
UpdateRender ==
    /\ ~panicked
    /\ tpc = "render"
    /\ tFrame' = <<clearScreen>> \o Render(At(tSession).screen) \o <<hideCursor>>
    /\ tScreen' = NewPlayerScreen(0, 0)
    /\ tpc' = "write"
    /\ wire' = NoWrite
    /\ UNCHANGED <<registryVars, currentQuizz, qmux, tTodo, tSession, tQuizz,
                   panicked, mainVars, screenVars>>

\* UpdateWrite with the error of io.Copy treated as fatal (log.Fatal), as
\* main.go treats a failed handshake
UpdateWriteFatal(outcome) ==
    /\ ~panicked
    /\ tpc = "write"
    /\ IF outcome = "block"
       THEN /\ tpc' = "blocked"
            /\ wire' = NoWrite
            /\ panicked' = FALSE
            /\ UNCHANGED <<heap, tSession, tScreen, tFrame>>
       ELSE /\ wire' = [name |-> At(tSession).name, frame |-> tFrame,
                        err |-> outcome = "fail"]
            /\ panicked' = (outcome = "fail")
            /\ tpc' = IF outcome = "fail" THEN tpc ELSE "range"
            /\ tSession' = NilSession
            /\ heap' = Collect(heap, Sessions, NilSession, waiting)
            /\ tScreen' = NewPlayerScreen(0, 0)
            /\ tFrame' = <<>>
    /\ UNCHANGED <<Sessions, waiting, currentQuizz, qmux, tTodo, tQuizz, mainVars,
                   screenVars>>

\* PlayerSession.Update: io.Copy(s.channel, &buffer), its results dropped,
\* and the return to the range loop. A Write that never returns leaves the
\* ticker inside io.Copy for good.
UpdateWrite(outcome) ==
    /\ ~panicked
    /\ tpc = "write"
    /\ IF outcome = "block"
       THEN /\ tpc' = "blocked"
            /\ wire' = NoWrite
            /\ UNCHANGED <<heap, tSession, tScreen, tFrame>>
       ELSE /\ wire' = [name |-> At(tSession).name, frame |-> tFrame,
                        err |-> outcome = "fail"]
            /\ tpc' = "range"
            /\ tSession' = NilSession
            /\ heap' = Collect(heap, Sessions, NilSession, waiting)
            /\ tScreen' = NewPlayerScreen(0, 0)
            /\ tFrame' = <<>>
    /\ UNCHANGED <<Sessions, waiting, currentQuizz, qmux, tTodo, tQuizz, panicked,
                   mainVars, screenVars>>

\* the goroutine started by Run
Ticker ==
    \/ Tick
    \/ RangeNext
    \/ UpdateCompute
    \/ UpdateRender
    \/ \E outcome \in Outcomes : UpdateWrite(outcome)

Next ==
    \/ \E quizz \in Quizzes : SetQuizz(quizz)
    \/ Run
    \/ AddSessionLock
    \/ \E username \in Names, session \in Ids \cup {NilSession} :
           AddSession(username, session)
    \/ HandleUserConnectionLock
    \/ \E username \in Names, g \in Geometries :
           HandleUserConnection(username, g[1], g[2])
    \/ \E username \in Names : UpdateWindowSizeAbsent(username)
    \/ \E username \in Names : UpdateWindowSize(username)
    \/ \E ref \in Ids, g \in Geometries : UpdateWindows(ref, g[1], g[2])
    \/ \E ref \in Ids : UpdateWindowsReturn(ref)
    \/ Ticker

Spec == Init /\ [][Next]_vars

\* the server that only gets connections and quizzes
NextTick ==
    \/ \E quizz \in TickQuizzes : SetQuizz(quizz)
    \/ Run
    \/ HandleUserConnectionLock
    \/ \E username \in Names, g \in Geometries :
           HandleUserConnection(username, g[1], g[2])
    \/ Ticker

TickSpec == Init /\ [][NextTick]_vars

\* the Go scheduler runs the ticker goroutine whenever it can take a step
FairSpec == TickSpec /\ WF_vars(Ticker)

(***************************************************************************)
(* MainSpec: the server as main.go wires it.                               *)
(***************************************************************************)
\* the rows and columns main.go passes to startNewSession
MainRows == 30
MainCols == 80

\* the quizz main sets before Run
MainQuizz == Quizz(<<"S", "o", "m", "e", " ", "C", "o", "r", "e", " ", "D", "a", "t", "a">>)

\* <<Rows, Columns>> of a pty-req payload, <<RowsHeight, ColumnsWidth>> of a
\* window-change payload
PtyGeometries == {<<24, 80>>, <<40, 120>>}

\* main up to server.Run(): NewQuizzServer, SetQuizz(quizz), Run
InitMain ==
    /\ Sessions = [u \in Names |-> NoEntry]
    /\ heap = [id \in Ids |-> NoSession]
    /\ waiting = [id \in Ids |-> 0]
    /\ currentQuizz = MainQuizz
    /\ qmux = "free"
    /\ tpc = "wait"
    /\ tTodo = {}
    /\ tSession = NilSession
    /\ tQuizz = NoQuizz
    /\ tScreen = NewPlayerScreen(0, 0)
    /\ tFrame = <<>>
    /\ wire = NoWrite
    /\ pending = {}
    /\ replying = [u \in Names |-> NoReply]
    /\ reply = NoReply
    /\ panicked = FALSE
    /\ scr = NewPlayerScreen(0, 0)
    /\ pre = NewPlayerScreen(0, 0)
    /\ call = NoCall

\* go server.HandleUserConnection(channel, username, int(rows), int(columns));
\* a started call stays in `pending`, standing for every call started with
\* these arguments
startNewSession(username, rows, columns) ==
    pending' = pending \cup {<<username, rows, columns>>}

\* the pty-req handler passing the geometry of the payload on
PtyReqOwnGeometry(username, rows, columns) ==
    /\ ~panicked
    /\ replying[username] = NoReply
    /\ startNewSession(username, rows, columns)
    /\ replying' = [replying EXCEPT ![username] =
                       [type |-> "pty-req", rows |-> rows, columns |-> columns,
                        ok |-> TRUE]]
    /\ wire' = NoWrite
    /\ UNCHANGED <<registryVars, currentQuizz, qmux, tickerVars, panicked, reply,
                   screenVars>>

\* case "pty-req" with a payload that unmarshals to rows, columns, up to
\* req.Reply(true, nil): startNewSession has started the goroutine and the
\* handler is about to send the reply on the connection, where it may wait.
\* The goroutine of a channel handles one request at a time.
PtyReq(username, rows, columns) ==
    /\ ~panicked
    /\ replying[username] = NoReply
    /\ startNewSession(username, MainRows, MainCols)
    /\ replying' = [replying EXCEPT ![username] =
                       [type |-> "pty-req", rows |-> rows, columns |-> columns,
                        ok |-> TRUE]]
    /\ wire' = NoWrite
    /\ UNCHANGED <<registryVars, currentQuizz, qmux, tickerVars, panicked, reply,
                   screenVars>>

\* case "pty-req": req.Reply(true, nil) returns
PtyReqReply(username) ==
    /\ ~panicked
    /\ replying[username] # NoReply
    /\ reply' = replying[username]
    /\ replying' = [replying EXCEPT ![username] = NoReply]
    /\ wire' = NoWrite
    /\ UNCHANGED <<registryVars, currentQuizz, qmux, tickerVars, panicked, pending,
                   screenVars>>

\* case "pty-req" with a payload that does not unmarshal
PtyReqMalformed(username) ==
    /\ ~panicked
    /\ replying[username] = NoReply
    /\ reply' = [type |-> "pty-req", rows |-> 0, columns |-> 0, ok |-> FALSE]
    /\ wire' = NoWrite
    /\ UNCHANGED <<registryVars, currentQuizz, qmux, tickerVars, panicked, pending,
                   replying, screenVars>>

\* case "window-change": the call of UpdateWindowSize is commented out
WindowChange(username, rows, columns) ==
    /\ ~panicked
    /\ replying[username] = NoReply
    /\ reply' = [type |-> "window-change", rows |-> rows, columns |-> columns,
                 ok |-> FALSE]
    /\ wire' = NoWrite
    /\ UNCHANGED <<registryVars, currentQuizz, qmux, tickerVars, panicked, pending,
                   replying, screenVars>>

\* default: any other request
OtherRequest(username) ==
    /\ ~panicked
    /\ replying[username] = NoReply
    /\ reply' = [type |-> "other", rows |-> 0, columns |-> 0, ok |-> TRUE]
    /\ wire' = NoWrite
    /\ UNCHANGED <<registryVars, currentQuizz, qmux, tickerVars, panicked, pending,
                   replying, screenVars>>

\* a started HandleUserConnection takes q.mux
MainConnectLock ==
    /\ pending # {}
    /\ HandleUserConnectionLock

\* a started HandleUserConnection inserts its session and unlocks
MainConnect ==
    \E p \in pending : HandleUserConnection(p[1], p[2], p[3])

NextMain ==
    \/ \E username \in Names, g \in PtyGeometries : PtyReq(username, g[1], g[2])
    \/ \E username \in Names : PtyReqReply(username)
    \/ \E username \in Names : PtyReqMalformed(username)
    \/ \E username \in Names, g \in PtyGeometries : WindowChange(username, g[1], g[2])
    \/ \E username \in Names : OtherRequest(username)
    \/ MainConnectLock
    \/ MainConnect
    \/ Ticker

MainSpec == InitMain /\ [][NextMain]_vars

(***************************************************************************)
(* SpecScreen: one call of a screen operation on a buffer.                 *)
(***************************************************************************)
\* the buffer of r rows with DrawRect(0, i, columns-1, i) applied to every
\* row from i on: no cell of it is blank
RECURSIVE HatchFrom(_, _)
HatchFrom(s, i) ==
    IF i >= s.Rows THEN s
    ELSE HatchFrom(DrawRect(s, 0, i, s.Columns - 1, i, "FgCyan"), i + 1)

Widths == (0..MaxCols) \cup {PlayersLeft, PlayersLeft + 1, PlayersLeft + 2}
Texts == {Text(n) : n \in (0..MaxLen) \cup {QuestionsRight, PlayersLeft + MaxLen}}
Ys == -1..MaxRows
Xs == -1..MaxCols

\* the buffers a call is applied to: fresh ones and drawn-over ones
ScreenInputs ==
    UNION {{NewPlayerScreen(r, c), HatchFrom(NewPlayerScreen(r, c), 0)} :
               r \in 0..MaxRows, c \in Widths}

InitScreen ==
    /\ ServerInit
    /\ panicked = FALSE
    /\ scr \in ScreenInputs
    /\ pre = scr
    /\ call = NoCall

CallDrawRect(topLeftX, topLeftY, bottomRightX, bottomRightY) ==
    /\ call = NoCall
    /\ call' = [op |-> "DrawRect", text |-> <<>>,
                args |-> <<topLeftX, topLeftY, bottomRightX, bottomRightY>>, out |-> <<>>]
    /\ scr' = DrawRect(scr, topLeftX, topLeftY, bottomRightX, bottomRightY, "FgCyan")
    /\ UNCHANGED <<serverVars, panicked, mainVars, pre>>

CallSetText(text, i, j) ==
    /\ call = NoCall
    /\ call' = [op |-> "SetText", text |-> text, args |-> <<i, j>>, out |-> <<>>]
    /\ IF SetTextPanics(scr, text, i, j)
       THEN panicked' = TRUE /\ scr' = scr
       ELSE panicked' = FALSE /\ scr' = SetText(scr, text, i, j, "FgHiRed", "BgBlack")
    /\ UNCHANGED <<serverVars, mainVars, pre>>

CallCompute(title) ==
    /\ call = NoCall
    /\ call' = [op |-> "Compute", text |-> title, args |-> <<>>, out |-> <<>>]
    /\ IF ComputePanics(scr, Quizz(title))
       THEN panicked' = TRUE /\ scr' = scr
       ELSE panicked' = FALSE /\ scr' = Compute(scr, Quizz(title))
    /\ UNCHANGED <<serverVars, mainVars, pre>>

\* UpdateWindows that copies the cells the old and the new buffer share
CallUpdateWindowsKeep(rows, columns) ==
    /\ call = NoCall
    /\ scr' = [NewPlayerScreen(rows, columns) EXCEPT !.Tiles =
                   [i \in 0..(rows - 1) |-> [j \in 0..(columns - 1) |->
                       IF i < scr.Rows /\ j < scr.Columns THEN scr.Tiles[i][j] ELSE empty]]]
    /\ call' = [op |-> "UpdateWindows", text |-> <<>>, args |-> <<rows, columns>>,
                out |-> Render(scr')]
    /\ UNCHANGED <<serverVars, panicked, mainVars, pre>>

\* the body of PlayerSession.UpdateWindows on the session's screen: the new
\* buffer, and the string its Render returns
CallUpdateWindows(rows, columns) ==
    /\ call = NoCall
    /\ scr' = NewPlayerScreen(rows, columns)
    /\ call' = [op |-> "UpdateWindows", text |-> <<>>, args |-> <<rows, columns>>,
                out |-> Render(scr')]
    /\ UNCHANGED <<serverVars, panicked, mainVars, pre>>

CallRender ==
    /\ call = NoCall
    /\ call' = [op |-> "Render", text |-> <<>>, args |-> <<>>, out |-> Render(scr)]
    /\ UNCHANGED <<serverVars, panicked, mainVars, scr, pre>>

NextScreen ==
    \/ \E x0 \in Xs, y0 \in Ys, x1 \in Xs, y1 \in Ys : CallDrawRect(x0, y0, x1, y1)
    \/ \E text \in Texts, i \in Ys, j \in Xs : CallSetText(text, i, j)
    \/ \E title \in Texts : CallCompute(title)
    \/ \E rows \in 0..MaxRows, columns \in Widths : CallUpdateWindows(rows, columns)
    \/ CallRender

SpecScreen == InitScreen /\ [][NextScreen]_vars

(***************************************************************************)
(* The claims.                                                             *)
(***************************************************************************)
Frame(screen) == <<clearScreen>> \o Render(screen) \o <<hideCursor>>

\* C1 (as claimed): a tick render and a resize of one session exclude each
\* other, so the frame PlayerSession.Update is about to write is the
\* rendering of the very buffer its Compute acted on.
CE_C1_RenderOnComputedBuffer ==
    [][(tpc = "render" /\ tpc' = "write") => tFrame' = Frame(tScreen)]_vars

\* C2 (as claimed): Compute never panics, whatever the geometry and the title.
CE_C2_ComputeNeverPanics ==
    call.op = "Compute" => ~panicked

\* the buffer `before` with the first n bytes of text written at (row, col)
WithPrefix(before, text, row, col, n) ==
    [before EXCEPT !.Tiles =
        [r \in 0..(before.Rows - 1) |-> [c \in 0..(before.Columns - 1) |->
            IF r = row /\ c >= col /\ c < col + n
            THEN Styled(text[c - col + 1], "FgHiRed", "BgBlack")
            ELSE before.Tiles[r][c]]]]

\* C3 (as claimed): a text that overflows the columns (cols - col < len) is
\* cut to exactly cols - 1 - col bytes, its prefix, written from (row, col),
\* without a panic. Stated for the columns of the buffer.
CE_C3_TruncatesToRemaining ==
    (/\ call.op = "SetText"
     /\ call.args[1] \in 0..(pre.Rows - 1)
     /\ call.args[2] \in 0..(pre.Columns - 1)
     /\ pre.Columns - call.args[2] < Len(call.text))
    => /\ ~panicked
       /\ scr = WithPrefix(pre, call.text, call.args[1], call.args[2],
                           pre.Columns - 1 - call.args[2])

\* C4 (as claimed): a text that fits (col + len <= cols - 1) on a row of the
\* buffer is written whole from (row, col) and no other cell changes. Stated
\* for the columns of the buffer.
CE_C4_FittingTextWritten ==
    (/\ call.op = "SetText"
     /\ call.args[1] \in 0..(pre.Rows - 1)
     /\ call.args[2] >= 0
     /\ call.args[2] + Len(call.text) <= pre.Columns - 1)
    => /\ ~panicked
       /\ scr = WithPrefix(pre, call.text, call.args[1], call.args[2], Len(call.text))

\* the coordinates of a DrawRect call all lie on the buffer
OnBuffer(s, x0, y0, x1, y1) ==
    /\ x0 \in 0..(s.Columns - 1) /\ x1 \in 0..(s.Columns - 1)
    /\ y0 \in 0..(s.Rows - 1) /\ y1 \in 0..(s.Rows - 1)

\* the cells strictly between the corners on the four edges hold wall glyphs
EdgesPainted(s, x0, y0, x1, y1) ==
    /\ \A j \in (x0 + 1)..(x1 - 1) :
           /\ s.Tiles[y0][j] = Styled(horizontalWall, "FgCyan", "")
           /\ s.Tiles[y1][j] = Styled(horizontalWall, "FgCyan", "")
    /\ \A i \in (y0 + 1)..(y1 - 1) :
           /\ s.Tiles[i][x0] = Styled(verticalWall, "FgCyan", "")
           /\ s.Tiles[i][x1] = Styled(verticalWall, "FgCyan", "")

\* each corner cell holds the glyph of its own corner
OwnCorners(s, x0, y0, x1, y1) ==
    /\ s.Tiles[y0][x0] = Styled(topLeft, "FgCyan", "")
    /\ s.Tiles[y0][x1] = Styled(topRight, "FgCyan", "")
    /\ s.Tiles[y1][x1] = Styled(bottomRight, "FgCyan", "")
    /\ s.Tiles[y1][x0] = Styled(bottomLeft, "FgCyan", "")

\* the cells off the rectangle's outline are as before
OffOutlineUnchanged(before, s, x0, y0, x1, y1) ==
    /\ s.Rows = before.Rows /\ s.Columns = before.Columns
    /\ \A i \in 0..(s.Rows - 1), j \in 0..(s.Columns - 1) :
           (i \notin {y0, y1} /\ j \notin {x0, x1}) => s.Tiles[i][j] = before.Tiles[i][j]

\* C5 (as claimed): DrawRect leaves the buffer unchanged when a coordinate is
\* off the buffer; otherwise all four edges are painted and each of the four
\* corner cells holds its own corner glyph.
CE_C5_EveryCornerOwnGlyph ==
    call.op = "DrawRect" =>
        LET x0 == call.args[1]  y0 == call.args[2]
            x1 == call.args[3]  y1 == call.args[4]
        IN IF ~OnBuffer(pre, x0, y0, x1, y1) THEN scr = pre
           ELSE EdgesPainted(scr, x0, y0, x1, y1) /\ OwnCorners(scr, x0, y0, x1, y1)

\* C5 (amended): DrawRect leaves the buffer unchanged when a coordinate is off
\* the buffer; otherwise the four corner cells hold corner glyphs, the one
\* written last (bottom-left) always its own, no cell off the outline changes,
\* and when x0 < x1 and y0 < y1 all four edges are painted and each of the
\* four corner cells holds its own corner glyph.
C5_DrawRectAllOrNothing ==
    call.op = "DrawRect" =>
        LET x0 == call.args[1]  y0 == call.args[2]
            x1 == call.args[3]  y1 == call.args[4]
            corners == {Styled(g, "FgCyan", "") :
                            g \in {topLeft, topRight, bottomRight, bottomLeft}}
        IN IF ~OnBuffer(pre, x0, y0, x1, y1) THEN scr = pre
           ELSE /\ {scr.Tiles[y0][x0], scr.Tiles[y0][x1],
                    scr.Tiles[y1][x1], scr.Tiles[y1][x0]} \subseteq corners
                /\ scr.Tiles[y1][x0] = Styled(bottomLeft, "FgCyan", "")
                /\ OffOutlineUnchanged(pre, scr, x0, y0, x1, y1)
                /\ (x0 < x1 /\ y0 < y1) =>
                       /\ EdgesPainted(scr, x0, y0, x1, y1)
                       /\ OwnCorners(scr, x0, y0, x1, y1)

\* C5 witness: a rectangle of at least 3 x 3 cells drawn over a buffer that
\* was not blank
W_C5_RectangleDrawn ==
    /\ call.op = "DrawRect"
    /\ OnBuffer(pre, call.args[1], call.args[2], call.args[3], call.args[4])
    /\ call.args[1] + 1 < call.args[3]
    /\ call.args[2] + 1 < call.args[4]
    /\ pre # NewPlayerScreen(pre.Rows, pre.Columns)
    /\ scr # pre

\* C6: the step in which a write to a sink fails takes the ticker back to its
\* range loop with the keys still to produce, the registry, the quizz and
\* the process untouched; and the range loop ends only when no key is left.
C6_WriteFailureIsolated ==
    [][/\ (tpc = "write" /\ wire'.err) =>
              /\ tpc' = "range"
              /\ ~panicked'
              /\ tTodo' = tTodo
              /\ Sessions' = Sessions
              /\ currentQuizz' = currentQuizz
       /\ (tpc = "range" /\ tpc' = "wait") => tTodo = {}]_vars

\* C6 witness: the write to one session has just failed and the range loop
\* still has another registered session to produce
W_C6_FailureThenOthers ==
    /\ wire.err
    /\ tpc = "range"
    /\ \E u \in tTodo : Sessions[u] \in Ids /\ At(Sessions[u]).name # wire.name
    /\ ~panicked

\* C7 (as claimed): when the tick in which the write to a session failed
\* ends, no entry of the registry holds a session of that sink.
CE_C7_FailedSessionRemoved ==
    [][(wire.err /\ tpc = "range" /\ tpc' = "wait")
           => \A u \in Names :
                  Sessions'[u] \in Ids => heap'[Sessions'[u]].name # wire.name]_vars

\* C8 (as claimed): while the write to one session never returns, every other
\* registered session still gets a write later.
CE_C8_BlockedSinkStarvesNobody ==
    \A n \in Names :
        []((/\ tpc = "blocked"
            /\ At(tSession).name # n
            /\ \E u \in Names : Sessions[u] \in Ids /\ At(Sessions[u]).name = n)
               => <>(wire.name = n))

\* C9 (as claimed): every session.Update of one tick gets the same quizz.
CE_C9_OneSnapshotPerTick ==
    [][(tpc = "range" /\ tpc' = "compute" /\ tQuizz # NoQuizz)
           => tQuizz' = tQuizz]_vars

\* C10 (as claimed): UpdateWindows, before it returns, writes the frame of
\* the new buffer composed for the current quizz to the session's sink.
CE_C10_ResizeWritesFrame ==
    [][\A ref \in Ids :
           (UpdateWindowsReturn(ref) /\ currentQuizz # NoQuizz)
               => wire' = [name |-> At(ref).name, err |-> FALSE,
                           frame |-> Frame(Compute(At(ref).screen, currentQuizz))]]_vars

\* C11: every write to a sink is the one write that ends a PlayerSession.Update
\* and carries, whole, the buffer that Update assembled: clearScreen first,
\* hideCursor last, and between them the rendering of the session's buffer as
\* Update read it; no other step writes to a sink.
C11_OneWriteClearFrameHide ==
    [][/\ (tpc = "render" /\ tpc' = "write") =>
              /\ Len(tFrame') >= 2
              /\ tFrame'[1] = clearScreen
              /\ tFrame'[Len(tFrame')] = hideCursor
              /\ SubSeq(tFrame', 2, Len(tFrame') - 1) = Render(At(tSession).screen)
       /\ (tpc \in {"write", "blocked"} /\ tpc' \in {"write", "blocked"}) =>
              tFrame' = tFrame
       /\ (tpc = "write" /\ tpc' = "range") =>
              /\ wire'.name = At(tSession).name
              /\ wire'.frame = tFrame
       /\ ~(tpc = "write" /\ tpc' = "range") => wire' = NoWrite]_vars

\* C11 witness: a frame of a buffer with cells was written to one session
\* while another session is registered
W_C11_FrameWritten ==
    /\ wire.name \in Names
    /\ ~wire.err
    /\ Len(wire.frame) > 2 + MaxRows
    /\ \E u \in Names : Sessions[u] \in Ids /\ At(Sessions[u]).name # wire.name
    /\ ~panicked

\* C12: whatever the buffer held, after UpdateWindows(r2, c2) the buffer has
\* r2 rows and c2 columns and its rendering is r2 rows of c2 blank cells,
\* each row followed by "\r\n": no cell of the old buffer is left.
C12_ResizeThenRenderBlank ==
    call.op = "UpdateWindows" =>
        LET r2 == call.args[1]
            c2 == call.args[2]
        IN /\ scr.Rows = r2 /\ scr.Columns = c2
           /\ Len(call.out) = r2 * (c2 + 1)
           /\ \A k \in 1..Len(call.out) :
                  call.out[k] = IF k % (c2 + 1) = 0 THEN crlf ELSE empty

\* C12 witness: a buffer with no blank cell was resized to a geometry with
\* cells, all of them cells the old buffer had too
W_C12_DrawnBufferResized ==
    /\ call.op = "UpdateWindows"
    /\ pre.Rows >= 1 /\ pre.Columns >= 1
    /\ \A i \in 0..(pre.Rows - 1), j \in 0..(pre.Columns - 1) : pre.Tiles[i][j] # empty
    /\ scr.Rows \in 1..pre.Rows
    /\ scr.Columns \in 1..pre.Columns

\* C13 (as claimed): the frame a PlayerSession.Update composes is the frame a
\* blank buffer of the same geometry gives for the quizz it was passed: no
\* cell of an earlier render is left in it.
CE_C13_FrameOfFreshBuffer ==
    [][(tpc = "compute" /\ tpc' = "render") =>
           Frame(tScreen') = Frame(Compute(NewPlayerScreen(tScreen'.Rows, tScreen'.Columns),
                                           tQuizz))]_vars

\* C14: a step of PlayerSession.Update on one session leaves q.currentQuizz,
\* q.Sessions and every other session as they were, and changes of its own
\* session only the cells of the buffer, not its geometry; the frame it
\* assembles has the rows and columns of its own session's buffer. A session
\* is a PlayerSession object: two keys AddSession gave the same pointer hold
\* one session, not two.
C14_UpdateTouchesOwnBufferOnly ==
    [][(tpc \in {"compute", "render", "write"} /\ tpc' # tpc) =>
           /\ currentQuizz' = currentQuizz
           /\ Sessions' = Sessions
           /\ \A id \in Ids :
                  IF id # tSession
                  THEN heap'[id] = heap[id]
                  ELSE \/ heap'[id] = NoSession
                       \/ /\ heap'[id].name = heap[id].name
                          /\ heap'[id].mux = heap[id].mux
                          /\ heap'[id].screen.Rows = heap[id].screen.Rows
                          /\ heap'[id].screen.Columns = heap[id].screen.Columns
           /\ tpc = "render" =>
                  Len(tFrame') = 2 + At(tSession).screen.Rows
                                       * (At(tSession).screen.Columns + 1)]_vars

\* C14 witness: two registered sessions of different geometries have both
\* been drawn on, and the frame just written has the geometry of a session
\* of the sink it went to
W_C14_TwoGeometriesRendered ==
    /\ wire.name \in Names
    /\ ~wire.err
    /\ \A u \in Names :
           /\ Sessions[u] \in Ids
           /\ At(Sessions[u]).screen # NewPlayerScreen(At(Sessions[u]).screen.Rows,
                                                       At(Sessions[u]).screen.Columns)
    /\ \E u, v \in Names :
           /\ At(Sessions[u]).screen.Columns # At(Sessions[v]).screen.Columns
           /\ At(Sessions[u]).name = wire.name
           /\ Len(wire.frame) = 2 + At(Sessions[u]).screen.Rows
                                      * (At(Sessions[u]).screen.Columns + 1)
    /\ ~panicked

\* C15 (as claimed): UpdateWindowSize for a username with no entry creates no
\* session, replaces no buffer, writes to no sink and does not panic.
CE_C15_AbsentIsNoOp ==
    [][(\E u \in Names : UpdateWindowSizeAbsent(u)) =>
           /\ Sessions' = Sessions
           /\ heap' = heap
           /\ wire' = NoWrite
           /\ ~panicked']_vars

\* C17: Render of a buffer of R rows and C columns returns R lines in row
\* order, each the C cells of its row from left to right followed by "\r\n",
\* and leaves the buffer as it was; of a blank buffer every cell is `empty`.
C17_RenderRowsOfCells ==
    call.op = "Render" =>
        LET R == pre.Rows
            C == pre.Columns
        IN /\ scr = pre
           /\ Len(call.out) = R * (C + 1)
           /\ \A i \in 0..(R - 1) :
                  /\ call.out[i * (C + 1) + C + 1] = crlf
                  /\ \A j \in 0..(C - 1) :
                         /\ call.out[i * (C + 1) + j + 1] = pre.Tiles[i][j]
                         /\ pre = NewPlayerScreen(R, C) =>
                                call.out[i * (C + 1) + j + 1] = empty

\* C17 witness: a blank buffer of several rows and columns was rendered
W_C17_BlankRendered ==
    /\ call.op = "Render"
    /\ pre.Rows >= 2 /\ pre.Columns >= 2
    /\ pre = NewPlayerScreen(pre.Rows, pre.Columns)
    /\ Len(call.out) > 0

\* C18 (as claimed): the range loop of QuizzServer.Update is never about to
\* take the next entry of q.Sessions while AddSession or HandleUserConnection
\* holds q.mux to insert into it.
CE_C18_RangeExcludesInsert ==
    ~(tpc = "range" /\ Inserting)

\* the glyphs DrawRect writes
BorderGlyphs == {horizontalWall, verticalWall, topLeft, topRight, bottomRight, bottomLeft}

\* C19 (as claimed): after a Compute that returns on a buffer of at least 3
\* rows and 57 columns, the cells of row 2 at columns 0, 55, 56 and
\* Columns-1 hold border glyphs, and the title's bytes are in columns 1..54
\* of row 2 only.
CE_C19_TitleInsideLeftPanel ==
    (/\ call.op = "Compute"
     /\ ~panicked
     /\ pre.Rows >= TitleRow + 1
     /\ pre.Columns >= PlayersLeft + 1)
    => /\ \A j \in {0, QuestionsRight, PlayersLeft, scr.Columns - 1} :
              scr.Tiles[TitleRow][j].glyph \in BorderGlyphs
       /\ \A i \in 0..(scr.Rows - 1), j \in 0..(scr.Columns - 1) :
              scr.Tiles[i][j].fg = "FgHiRed" =>
                  i = TitleRow /\ j \in 1..(QuestionsRight - 1)

\* C20: in the server as main wires it, every session, registered or still
\* held by the ticker, has a buffer of 30 rows of 80 cells and was never
\* resized, whatever the requests carried; a window-change request is
\* answered with failure.
C20_MainSessionsAre30x80 ==
    /\ \A u \in Names : Sessions[u] \in Ids \cup {NoEntry}
    /\ \A s \in {heap[id] : id \in Ids} :
           s # NoSession =>
               /\ s.screen.Rows = MainRows
               /\ s.screen.Columns = MainCols
               /\ DOMAIN s.screen.Tiles = 0..(MainRows - 1)
               /\ \A i \in 0..(MainRows - 1) :
                      DOMAIN s.screen.Tiles[i] = 0..(MainCols - 1)
               /\ ~s.mux
    /\ reply.type = "window-change" => ~reply.ok

\* C20 witness: every client has a session, one of them drawn on, after
\* pty-reqs, and a window-change request with another geometry has just been
\* answered
W_C20_WindowChangeAnswered ==
    /\ \A u \in Names : Sessions[u] \in Ids
    /\ \E u \in Names : At(Sessions[u]).screen # NewPlayerScreen(MainRows, MainCols)
    /\ reply.type = "window-change"
    /\ <<reply.rows, reply.columns>> # <<MainRows, MainCols>>
    /\ ~panicked

====
